---- MODULE Spec2Model ----
(***************************************************************************)
(* A model of Falcor's AssimpImporter                                      *)
(* (Source/Falcor/Scene/Importers/AssimpImporter.cpp).                     *)
(*                                                                         *)
(* The importer is a pipeline of stages over a read-only aiScene.  Each    *)
(* stage is modelled by the actions of one specification:                  *)
(*   SpecAnim      createAnimation: the per-channel keyframe merge         *)
(*   SpecValidate  validateScene / validateBones                           *)
(*   SpecGraph     validateScene, then createSceneGraph / parseNode        *)
(*   SpecMesh      the scene stages up to addMeshInstances, with the       *)
(*                 parallel tasks of createMeshes in every completion order*)
(*   SpecBones     loadBones for one skinned mesh                          *)
(*   SpecImport    the scene stages of import() on scenes with bones       *)
(*   SpecInstances addMeshInstances under the instance transforms handed   *)
(*                 to import()                                             *)
(*   SpecAnimFair  SpecAnim, for properties of whole runs of the merge     *)
(*   SpecMerge     the merge loop of createAnimation alone, run to its end *)
(*   SpecLookup    ImporterData::getFalcorNodeID(name, index) on its own   *)
(*   SpecTextures  loadTextures for one material                           *)
(* All stages share the build flavour (assertsEnabled), the program        *)
(* position (pc) and the error that ended the import (error).              *)
(***************************************************************************)
EXTENDS Integers, Sequences, FiniteSets, TLC

\* ----------------------------------------------------------------------
\* Bounds of the model
\* ----------------------------------------------------------------------

\* Longest key array of an animation channel.
MaxKeys == 2
\* Largest key time, in ticks.
MaxTime == 2
\* Most node instances that share the name an animation channel targets.
MaxNodeInstances == 2
\* Most nodes and meshes of a scene whose meshes are created and instanced.
MaxMeshNodes == 2
MaxMeshes == 2
\* Most instance transforms handed to import().
MaxModelInstances == 1
\* Most nodes of a scene whose graph is built.
MaxNodes == 3
\* Most nodes and meshes of a scene that is validated.
MaxValNodes == 2
MaxValMeshes == 3
\* Most nodes of a scene whose nodes are looked up by name, and the largest
\* instance index asked for.
MaxLookupNodes == 3
MaxLookupIndex == 2
\* Most bones of a skinned mesh.
MaxBones == 5
\* Most nodes of a scene whose meshes are instanced with several transforms, and
\* most such transforms.
MaxInstNodes == 2
MaxInstances == 2

\* ----------------------------------------------------------------------
\* Program constants
\* ----------------------------------------------------------------------

\* ticksPerSecond when the animation declares none (mTicksPerSecond == 0).
kDefaultTicksPerSecond == 25
\* ticksPerSecond forced in GLTF2 mode.
kGLTF2TicksPerSecond == 1000

\* NodeID::kInvalidID, the "no such node" identifier: all 32 bits set, written
\* here as the signed value of that bit pattern.  Valid ids count up from 0.
kInvalidID == -1

\* Scene::kMaxBonesPerVertex, the number of influence slots of a vertex.
kMaxBonesPerVertex == 4

ImportModes == {"Default", "OBJ", "GLTF2"}

VARIABLES
    assertsEnabled, \* whether FALCOR_ASSERT is compiled in (debug build)
    pc,             \* position of the import
    error,          \* "none", or what ended the import
    importMode,     \* ImportMode of the file
    \* ---- the external scene and the import's arguments
    pScene,         \* the aiScene: nodes (a tree) and meshes
    modelInstances, \* SceneBuilder::InstanceMatrices handed to import()
    pAiAnim,        \* the aiAnimation: mDuration, mTicksPerSecond and one channel
    \* ---- ImporterData
    localToBindPoseMatrices, \* bone name -> offset matrix
    mAiToFalcorNodeID,       \* aiNode -> NodeID
    mAiNodes,                \* name -> the aiNodes carrying it, in traversal order
    meshMap,                 \* "Assimp mesh index to Falcor mesh ID"
    \* ---- the SceneBuilder
    builderNodes, builderMeshes, builderMeshInstances, builderAnimations,
    \* ---- locals of the stage that is running
    parseStack,     \* parseNode: the calls still to be made, next one first
    instStack,      \* addMeshInstances: the calls still to be made, next one first
    meshes,         \* createMeshes: the meshes that passed the filter
    processedMeshes,\* createMeshes: one slot per filtered mesh
    completed,      \* createMeshes: the tasks that have finished, in that order
    commitIndex,    \* createMeshes: i of the commit loop
    animations,     \* createAnimation: indices of this channel's animations
    pos, rot, scale,\* createAnimation: cursors into the three key arrays
    keyframe,       \* createAnimation: the Animation::Keyframe being assembled
    done,           \* createAnimation: loop flag
    pAiMesh,        \* loadBones: the skinned aiMesh (mNumVertices, mBones)
    ids, weights,   \* loadBones: the uint4 / float4 of each vertex
    bone,           \* loadBones: the bone loop's counter
    lookup,         \* getFalcorNodeID(name, index): the arguments of the call
    lookupResult,   \* getFalcorNodeID(name, index): what the call returned
    pAiMaterial,    \* loadTextures: the aiMaterial's textures, by texture type
    source,         \* loadTextures: position in the mode's mapping table
    loadedTextures  \* SceneBuilder::loadMaterialTexture calls, in order

ctlVars     == <<assertsEnabled, pc, error, importMode>>
inputVars   == <<pScene, modelInstances>>
dataVars    == <<localToBindPoseMatrices, mAiToFalcorNodeID, mAiNodes, meshMap>>
builderSceneVars == <<builderNodes, builderMeshes, builderMeshInstances>>
meshLocals  == <<meshes, processedMeshes, completed, commitIndex>>
animLocals  == <<animations, pos, rot, scale, keyframe, done>>
sceneVars   == <<inputVars, localToBindPoseMatrices, mAiToFalcorNodeID, meshMap,
                 builderSceneVars, parseStack, instStack, meshLocals>>
animVars    == <<pAiAnim, builderAnimations, animLocals>>
boneLocals  == <<pAiMesh, ids, weights, bone>>
lookupLocals   == <<lookup, lookupResult>>
materialLocals == <<pAiMaterial, source, loadedTextures>>

vars == <<ctlVars, inputVars, pAiAnim, dataVars, builderSceneVars, builderAnimations,
          parseStack, instStack, meshLocals, animLocals, boneLocals, lookupLocals,
          materialLocals>>

\* ----------------------------------------------------------------------
\* Helpers
\* ----------------------------------------------------------------------

RECURSIVE SeqsUpTo(_, _)
\* All sequences over S of length 0..n.
SeqsUpTo(S, n) ==
    IF n = 0 THEN {<<>>}
    ELSE LET shorter == SeqsUpTo(S, n - 1)
         IN  shorter \cup {Append(s, x) : s \in shorter, x \in S}

Range(s) == {s[i] : i \in DOMAIN s}

Max2(a, b) == IF a >= b THEN a ELSE b

\* A time in seconds: ticks divided by a positive rate, kept exact.
Rat(n, d) == [num |-> n, den |-> d]
RatGT(a, b) == a.num * b.den > b.num * a.den
RatEQ(a, b) == a.num * b.den = b.num * a.den

\* A failed FALCOR_ASSERT ends the import where assertions are compiled in and is
\* a no-op elsewhere.
AssertFails(cond) == assertsEnabled /\ ~cond

\* ----------------------------------------------------------------------
\* createAnimation
\* ----------------------------------------------------------------------

\* The value std::numeric_limits<double>::max() negated: below every key time.
kNegDoubleMax == -1000000

\* Key arrays as Assimp delivers them: chronological, at least one key.
KeyTimes == (-1)..MaxTime
SortedTimes == {s \in SeqsUpTo(KeyTimes, MaxKeys) :
                   /\ Len(s) >= 1
                   /\ \A i \in 1..(Len(s) - 1) : s[i] < s[i + 1]}
\* The k-th key of array tag: its time, and a value that names the key.
KeysOf(tag, times) == [k \in DOMAIN times |-> [mTime |-> times[k], mValue |-> <<tag, k>>]]

\* aiCast of a key's value (a component-wise copy).
aiCast(v) == v

\* resetNegativeKeyframeTimes' resetTime lambda: its assertion and the new array.
resetTimeAssertOk(keys) == Len(keys) > 1 => keys[2].mTime >= 0
resetTime(keys) ==
    IF keys[1].mTime < 0 THEN [keys EXCEPT ![1].mTime = 0] ELSE keys

\* The applicable rate (lines 239-242).
ticksPerSecondDeclaredOrDefault ==
    IF pAiAnim.mTicksPerSecond # 0 THEN pAiAnim.mTicksPerSecond
    ELSE kDefaultTicksPerSecond
ticksPerSecond ==
    IF importMode = "GLTF2" THEN kGLTF2TicksPerSecond
    ELSE IF pAiAnim.mTicksPerSecond # 0 THEN pAiAnim.mTicksPerSecond
    ELSE kDefaultTicksPerSecond

durationInSeconds == Rat(pAiAnim.mDuration, ticksPerSecond)

\* The Animation::Keyframe a default construction gives.  Its values are written
\* like key values, <<tag, index>>, with index 0, which no key carries.
DefaultKeyframe ==
    [time |-> Rat(0, 1), translation |-> <<"default", 0>>,
     rotation |-> <<"default", 0>>, scaling |-> <<"default", 0>>]

\* The nextKeyTime lambda.
nextKeyTime ==
    LET ch == pAiAnim.channel
        t0 == kNegDoubleMax
        t1 == IF pos <= Len(ch.mPositionKeys)
              THEN Max2(t0, ch.mPositionKeys[pos].mTime) ELSE t0
        t2 == IF rot <= Len(ch.mRotationKeys)
              THEN Max2(t1, ch.mRotationKeys[rot].mTime) ELSE t1
        t3 == IF scale <= Len(ch.mScalingKeys)
              THEN Max2(t2, ch.mScalingKeys[scale].mTime) ELSE t2
    IN  t3

\* parseAnimationChannel: cursors count from 1 here, so "currentIndex >= count"
\* reads "currentIndex > Len(pKeys)".  Gives the new cursor, the new value and
\* the returned flag.
parseAnimationChannelAtOrBefore(pKeys, time, currentIndex, falcor) ==
    IF currentIndex > Len(pKeys)
    THEN [index |-> currentIndex, value |-> falcor, ret |-> TRUE]
    ELSE IF pKeys[currentIndex].mTime <= time
         THEN [index |-> currentIndex + 1,
               value |-> aiCast(pKeys[currentIndex].mValue),
               ret   |-> currentIndex + 1 > Len(pKeys)]
         ELSE [index |-> currentIndex, value |-> falcor, ret |-> FALSE]
parseAnimationChannelWithoutAdvance(pKeys, time, currentIndex, falcor) ==
    IF currentIndex > Len(pKeys)
    THEN [index |-> currentIndex, value |-> falcor, ret |-> TRUE]
    ELSE IF pKeys[currentIndex].mTime = time
         THEN [index |-> currentIndex,
               value |-> aiCast(pKeys[currentIndex].mValue),
               ret   |-> FALSE]
         ELSE [index |-> currentIndex, value |-> falcor, ret |-> FALSE]
parseAnimationChannel(pKeys, time, currentIndex, falcor) ==
    IF currentIndex > Len(pKeys)
    THEN [index |-> currentIndex, value |-> falcor, ret |-> TRUE]
    ELSE IF pKeys[currentIndex].mTime = time
         THEN [index |-> currentIndex + 1,
               value |-> aiCast(pKeys[currentIndex].mValue),
               ret   |-> currentIndex + 1 > Len(pKeys)]
         ELSE [index |-> currentIndex, value |-> falcor, ret |-> FALSE]

\* ImporterData::getNodeInstanceCount: mAiNodes.at(nodeName) throws when no node
\* carries the name.
getNodeInstanceCountThrows(nodeName) == nodeName \notin DOMAIN mAiNodes
getNodeInstanceCount(nodeName) == Len(mAiNodes[nodeName])

\* ImporterData::getFalcorNodeID(name, index), index counted from 0: any exception
\* (no such name) becomes NodeID::Invalid().  An index past the vector's end is
\* read with operator[]: no exception is raised for it (see getFalcorNodeIDDefined).
getFalcorNodeIDDefined(aiNodeName, index) ==
    aiNodeName \in DOMAIN mAiNodes => index < Len(mAiNodes[aiNodeName])
getFalcorNodeIDOfFirstInstance(aiNodeName, index) ==
    IF aiNodeName \in DOMAIN mAiNodes
    THEN mAiToFalcorNodeID[mAiNodes[aiNodeName][1]]
    ELSE kInvalidID
getFalcorNodeID(aiNodeName, index) ==
    IF aiNodeName \in DOMAIN mAiNodes
    THEN mAiToFalcorNodeID[mAiNodes[aiNodeName][index + 1]]
    ELSE kInvalidID

\* Animation::addKeyframe, called on every animation of the channel: the calls
\* are recorded in the order they are made.
addKeyframeToAll(anims, idxs, kf) ==
    [a \in DOMAIN anims |->
        IF a \in Range(idxs)
        THEN [anims[a] EXCEPT !.appended = Append(@, kf)]
        ELSE anims[a]]

\* Lines 245-264: the channel's first key times are clamped, one animation is
\* created and registered per node instance of the target name, and the cursors
\* are reset.
CreateAnimationBegin ==
    /\ pc = "createAnimation"
    /\ LET ch == pAiAnim.channel
           assertsOk == /\ resetTimeAssertOk(ch.mPositionKeys)
                        /\ resetTimeAssertOk(ch.mRotationKeys)
                        /\ resetTimeAssertOk(ch.mScalingKeys)
           reset == [ch EXCEPT !.mPositionKeys = resetTime(ch.mPositionKeys),
                               !.mRotationKeys = resetTime(ch.mRotationKeys),
                               !.mScalingKeys  = resetTime(ch.mScalingKeys)]
       IN  IF AssertFails(assertsOk)
           THEN /\ pc' = "aborted"
                /\ error' = "assert"
                /\ UNCHANGED animVars
           ELSE IF getNodeInstanceCountThrows(ch.mNodeName)
           THEN /\ pc' = "aborted"
                /\ error' = "out_of_range"
                /\ pAiAnim' = [pAiAnim EXCEPT !.channel = reset]
                /\ UNCHANGED <<builderAnimations, animLocals>>
           ELSE LET n == getNodeInstanceCount(ch.mNodeName)
                    created == [i \in 1..n |->
                                  [name     |-> <<ch.mNodeName, i - 1>>,
                                   nodeID   |-> getFalcorNodeID(ch.mNodeName, i - 1),
                                   duration |-> durationInSeconds,
                                   appended |-> <<>>]]
                IN  /\ pAiAnim' = [pAiAnim EXCEPT !.channel = reset]
                    /\ builderAnimations' = builderAnimations \o created
                    /\ animations' = [i \in 1..n |-> Len(builderAnimations) + i]
                    /\ pos' = 1 /\ rot' = 1 /\ scale' = 1
                    /\ keyframe' = DefaultKeyframe
                    /\ done' = FALSE
                    /\ pc' = "merge"
                    /\ UNCHANGED error
    /\ UNCHANGED <<lookupLocals, materialLocals, assertsEnabled, boneLocals, importMode, sceneVars, mAiNodes>>

\* Lines 276-287: one iteration of the merge loop.
MergeLoopIteration ==
    /\ pc = "merge"
    /\ ~done
    /\ LET ch   == pAiAnim.channel
           time == nextKeyTime
           secs == Rat(time, ticksPerSecond)
           p == parseAnimationChannel(ch.mPositionKeys, time, pos, keyframe.translation)
           r == parseAnimationChannel(ch.mRotationKeys, time, rot, keyframe.rotation)
           s == parseAnimationChannel(ch.mScalingKeys, time, scale, keyframe.scaling)
           kf == [time |-> secs, translation |-> p.value, rotation |-> r.value,
                  scaling |-> s.value]
       IN  IF AssertFails(time # kNegDoubleMax)
              \/ AssertFails(time = 0 \/ RatGT(secs, keyframe.time))
           THEN /\ pc' = "aborted"
                /\ error' = "assert"
                /\ UNCHANGED <<builderAnimations, pos, rot, scale, keyframe, done>>
           ELSE /\ keyframe' = kf
                /\ pos' = p.index /\ rot' = r.index /\ scale' = s.index
                /\ done' = (p.ret /\ r.ret /\ s.ret)
                /\ builderAnimations' = addKeyframeToAll(builderAnimations, animations, kf)
                /\ pc' = IF p.ret /\ r.ret /\ s.ret THEN "animDone" ELSE "merge"
                /\ UNCHANGED error
    /\ UNCHANGED <<lookupLocals, materialLocals, assertsEnabled, boneLocals, importMode, sceneVars, mAiNodes, pAiAnim, animations>>

\* What ImporterData holds for the channel's target name once the scene graph is
\* built: no node carries it, or 1..MaxNodeInstances nodes do.
AnimNodeMaps ==
    {<<>>} \cup {[nm \in {"n"} |-> [i \in 1..k |-> i]] : k \in 1..MaxNodeInstances}

\* The variables the animation stage neither reads nor writes.
SceneIdle ==
    /\ pScene = [nodes |-> <<>>, meshes |-> <<>>]
    /\ modelInstances = <<>>
    /\ localToBindPoseMatrices = <<>>
    /\ meshMap = <<>>
    /\ builderNodes = <<>>
    /\ builderMeshes = <<>>
    /\ builderMeshInstances = <<>>
    /\ parseStack = <<>>
    /\ instStack = <<>>
    /\ meshes = <<>>
    /\ processedMeshes = <<>>
    /\ completed = <<>>
    /\ commitIndex = 0

\* The variables of loadBones while no skinned mesh is being loaded.
BonesIdle ==
    /\ pAiMesh = [mNumVertices |-> 0, mBones |-> <<>>]
    /\ ids = <<>>
    /\ weights = <<>>
    /\ bone = 0

\* The variables of the node lookup and of loadTextures while neither runs.
LookupIdle ==
    /\ lookup = <<>>
    /\ lookupResult = kInvalidID
MaterialIdle ==
    /\ pAiMaterial = <<>>
    /\ source = 0
    /\ loadedTextures = <<>>

InitAnim ==
    /\ assertsEnabled \in BOOLEAN
    /\ BonesIdle
    /\ LookupIdle
    /\ MaterialIdle
    /\ pc = "createAnimation"
    /\ error = "none"
    /\ importMode \in {"Default", "GLTF2"}
    /\ \E pt \in SortedTimes, rt \in SortedTimes, st \in SortedTimes,
          tps \in {0, 2} :
          pAiAnim = [mDuration |-> MaxTime, mTicksPerSecond |-> tps,
                     channel |-> [mNodeName |-> "n",
                                  mPositionKeys |-> KeysOf("T", pt),
                                  mRotationKeys |-> KeysOf("R", rt),
                                  mScalingKeys  |-> KeysOf("S", st)]]
    /\ mAiNodes \in AnimNodeMaps
    /\ mAiToFalcorNodeID = [n \in 1..MaxNodeInstances |-> n + 1]
    /\ SceneIdle
    /\ builderAnimations = <<>>
    /\ animations = <<>>
    /\ pos = 1 /\ rot = 1 /\ scale = 1
    /\ keyframe = DefaultKeyframe
    /\ done = FALSE

NextAnim ==
    \/ CreateAnimationBegin
    \/ MergeLoopIteration

SpecAnim == InitAnim /\ [][NextAnim]_vars

\* createAnimation is straight-line code on one thread: once entered it keeps
\* taking steps until it returns or aborts.
SpecAnimFair == SpecAnim /\ WF_vars(NextAnim)

\* The merge loop on its own: neither the tick rate, nor the import mode, nor
\* the number of animations fed takes part in the movement of the cursors, so
\* they are fixed here; the key arrays and the build flavour are not.
InitMerge ==
    /\ InitAnim
    /\ importMode = "Default"
    /\ pAiAnim.mTicksPerSecond = 0
    /\ "n" \in DOMAIN mAiNodes
    /\ Len(mAiNodes["n"]) = 1

SpecMerge == InitMerge /\ [][NextAnim]_vars /\ WF_vars(NextAnim)

\* ----------------------------------------------------------------------
\* The aiScene
\* ----------------------------------------------------------------------
\* pScene.nodes[n] = [mName, mParent, mMeshes, mTransformation]: node 1 is
\* mRootNode, mParent = 0 stands for the null parent, mMeshes holds indices into
\* the mesh list.  pScene.meshes is the mesh list; mesh index m (counted from 0,
\* as in the source) is pScene.meshes[m + 1] = [kind, mBones], where kind tells
\* what the face filter of createMeshes sees and mBones[k] = [mName, mOffsetMatrix].

IdentityMatrix == "I"

aiNode(n) == pScene.nodes[n]
aiMesh(m) == pScene.meshes[m + 1]
mNumMeshes == Len(pScene.meshes)

\* aiNode::mChildren.
mChildren(n) ==
    SelectSeq([i \in 1..Len(pScene.nodes) |-> i], LAMBDA c : aiNode(c).mParent = n)

RECURSIVE PreOrder(_), PreOrderAll(_)
\* The nodes of the subtree of n in the order a recursive walk (node first, then
\* each child in turn) visits them.
PreOrder(n) == <<n>> \o PreOrderAll(mChildren(n))
PreOrderAll(cs) ==
    IF cs = <<>> THEN <<>> ELSE PreOrder(Head(cs)) \o PreOrderAll(Tail(cs))

\* ----------------------------------------------------------------------
\* validateScene / validateBones
\* ----------------------------------------------------------------------

RECURSIVE BoneRefs(_)
\* createBoneMap's push_back calls in the order they are made, from mesh index m on.
BoneRefs(m) ==
    IF m >= mNumMeshes THEN <<>>
    ELSE [k \in DOMAIN aiMesh(m).mBones |->
             [name |-> aiMesh(m).mBones[k].mName, mesh |-> m]] \o BoneRefs(m + 1)

\* createBoneMap: the std::map from each bone name to the meshes that list a bone
\* of that name.
createBoneMap ==
    LET refs == BoneRefs(0)
    IN  [name \in {refs[i].name : i \in DOMAIN refs} |->
            LET mine == SelectSeq(refs, LAMBDA r : r.name = name)
            IN  [i \in DOMAIN mine |-> mine[i].mesh]]

RECURSIVE MeshRefs(_)
\* countNodeMeshs' push_back calls in the order they are made, over the nodes of order.
MeshRefs(order) ==
    IF order = <<>> THEN <<>>
    ELSE [i \in DOMAIN aiNode(Head(order)).mMeshes |->
             [node |-> Head(order), mesh |-> aiNode(Head(order)).mMeshes[i]]]
         \o MeshRefs(Tail(order))

\* countMeshInstances: for each mesh index, the nodes that reference the mesh.
countMeshInstances ==
    LET refs == MeshRefs(PreOrder(1))
    IN  [m \in 0..(mNumMeshes - 1) |->
            LET mine == SelectSeq(refs, LAMBDA r : r.mesh = m)
            IN  [i \in DOMAIN mine |-> mine[i].node]]

\* The names bones and nodes are drawn from, in the order std::map iterates them.
NameOrder == <<"a", "b">>

\* The messages of validateBones' two ImporterErrors.
MultipleInstances == "Bone references a mesh with multiple instances"
DifferentWorldMatrices ==
    "Bone is contained within mesh instances with different world matrices"

\* The body of validateBones' inner loop (lines 977-985) for the bone whose
\* meshes are `second` and index i (from 1).
validateBoneMeshUnreferencedOnly(second, meshInstances, i) ==
    IF Len(meshInstances[second[i]]) = 0
    THEN MultipleInstances
    ELSE IF i > 1
            /\ aiNode(meshInstances[second[i]][1]).mTransformation
                 # aiNode(meshInstances[second[i - 1]][1]).mTransformation
    THEN DifferentWorldMatrices
    ELSE "ok"
validateBoneMeshManyOnly(second, meshInstances, i) ==
    IF Len(meshInstances[second[i]]) > 1
    THEN MultipleInstances
    ELSE IF /\ i > 1
            /\ Len(meshInstances[second[i]]) = 1
            /\ Len(meshInstances[second[i - 1]]) = 1
            /\ aiNode(meshInstances[second[i]][1]).mTransformation
                 # aiNode(meshInstances[second[i - 1]][1]).mTransformation
    THEN DifferentWorldMatrices
    ELSE "ok"
validateBoneMesh(second, meshInstances, i) ==
    IF Len(meshInstances[second[i]]) # 1
    THEN MultipleInstances
    ELSE IF i > 1
            /\ aiNode(meshInstances[second[i]][1]).mTransformation
                 # aiNode(meshInstances[second[i - 1]][1]).mTransformation
    THEN DifferentWorldMatrices
    ELSE "ok"

RECURSIVE BonePairs(_, _)
\* The (bone, index) pairs validateBones visits, in order, from the k-th name on.
BonePairs(boneMap, k) ==
    IF k > Len(NameOrder) THEN <<>>
    ELSE (IF NameOrder[k] \in DOMAIN boneMap
          THEN [i \in DOMAIN boneMap[NameOrder[k]] |-> <<NameOrder[k], i>>]
          ELSE <<>>)
         \o BonePairs(boneMap, k + 1)

RECURSIVE validateFrom(_, _, _)
\* validateBones' loops over the pairs still to visit: the first error ends them.
validateFrom(boneMap, meshInstances, pairs) ==
    IF pairs = <<>> THEN "ok"
    ELSE LET r == validateBoneMesh(boneMap[Head(pairs)[1]], meshInstances, Head(pairs)[2])
         IN  IF r # "ok" THEN r
             ELSE validateFrom(boneMap, meshInstances, Tail(pairs))

\* validateBones: "ok", or the message of the ImporterError it throws.
validateBones ==
    LET boneMap == createBoneMap
        meshInstances == countMeshInstances
    IN  validateFrom(boneMap, meshInstances, BonePairs(boneMap, 1))

\* validateScene called after the scene graph is built and not before.
ValidateSceneAfterSceneGraph ==
    /\ \/ pc = "validateScene" /\ pc' = "createSceneGraph" /\ UNCHANGED error
       \/ /\ pc = "createMeshes"
          /\ validateBones # "ok"
          /\ pc' = "aborted"
          /\ error' = validateBones
    /\ UNCHANGED <<lookupLocals, materialLocals, assertsEnabled, boneLocals, importMode, sceneVars, mAiNodes, animVars>>

\* validateScene (lines 990-998), as import() calls it at line 1038.
ValidateScene ==
    /\ pc = "validateScene"
    /\ LET result == validateBones
       IN  IF result # "ok"
           THEN pc' = "aborted" /\ error' = result
           ELSE pc' = "createSceneGraph" /\ UNCHANGED error
    /\ UNCHANGED <<lookupLocals, materialLocals, assertsEnabled, boneLocals, importMode, sceneVars, mAiNodes, animVars>>

\* ----------------------------------------------------------------------
\* createSceneGraph / parseNode
\* ----------------------------------------------------------------------

\* SceneBuilder::addNode: the node is appended and its id is its position,
\* counted from 0.
addNodeID(nodes) == Len(nodes)
addNode(nodes, n) == Append(nodes, n)

\* createBoneList: a later bone of the same name overwrites an earlier one.
createBoneList ==
    LET refs  == BoneRefs(0)
        names == {refs[i].name : i \in DOMAIN refs}
        last(nm) == CHOOSE i \in DOMAIN refs :
                        /\ refs[i].name = nm
                        /\ \A j \in DOMAIN refs : refs[j].name = nm => j <= i
        offset(r) == CHOOSE k \in DOMAIN aiMesh(r.mesh).mBones :
                        /\ aiMesh(r.mesh).mBones[k].mName = r.name
                        /\ \A j \in DOMAIN aiMesh(r.mesh).mBones :
                              aiMesh(r.mesh).mBones[j].mName = r.name => j <= k
    IN  [nm \in names |->
            aiCast(aiMesh(refs[last(nm)].mesh).mBones[offset(refs[last(nm)])].mOffsetMatrix)]

isBone(name) == name \in DOMAIN localToBindPoseMatrices

getLocalToBindPoseMatrix(name) ==
    IF isBone(name) THEN localToBindPoseMatrices[name] ELSE IdentityMatrix

\* createSceneGraph up to its call of parseNode (lines 706-711).
CreateSceneGraph ==
    /\ pc = "createSceneGraph"
    /\ localToBindPoseMatrices' = createBoneList
    /\ IF AssertFails(aiNode(1).mName \notin DOMAIN createBoneList)
       THEN pc' = "aborted" /\ error' = "assert"
       ELSE pc' = "parseNode" /\ UNCHANGED error
    /\ UNCHANGED <<lookupLocals, materialLocals, assertsEnabled, boneLocals, importMode, inputVars, mAiToFalcorNodeID, mAiNodes,
                   meshMap, builderSceneVars, parseStack, instStack, meshLocals,
                   animVars>>

\* ImporterData::addAiNode.
addAiNodeID(map, pNode, falcorNodeID) == (pNode :> falcorNodeID) @@ map
addAiNodeName(map, pNode) ==
    LET name == aiNode(pNode).mName
    IN  IF name \in DOMAIN map
        THEN [map EXCEPT ![name] = Append(@, pNode)]
        ELSE (name :> <<pNode>>) @@ map

\* The recursive calls parseNode makes for pCurrent's children, in order.
parseChildren(pCurrent, flag) ==
    [i \in DOMAIN mChildren(pCurrent) |->
        [node |-> mChildren(pCurrent)[i], hasBoneAncestor |-> flag]]

\* n.parent (line 677): the id registered for the parent, none for the root.
nodeParentLastAdded(pCurrent) == addNodeID(builderNodes) - 1
nodeParent(pCurrent) ==
    IF aiNode(pCurrent).mParent # 0
    THEN mAiToFalcorNodeID[aiNode(pCurrent).mParent]
    ELSE kInvalidID

\* One call of parseNode (lines 670-688): the node is registered, then its
\* children are visited before anything else that is pending.
ParseNode ==
    /\ pc = "parseNode"
    /\ parseStack # <<>>
    /\ LET pCurrent == Head(parseStack).node
           name == aiNode(pCurrent).mName
           currentIsBone == isBone(name)
           n == [name     |-> name,
                 parent   |-> nodeParent(pCurrent),
                 transform |-> aiCast(aiNode(pCurrent).mTransformation),
                 localToBindPose |-> getLocalToBindPoseMatrix(name)]
           rest == parseChildren(pCurrent, currentIsBone \/ Head(parseStack).hasBoneAncestor)
                   \o Tail(parseStack)
       IN  IF AssertFails(currentIsBone = FALSE \/ Len(aiNode(pCurrent).mMeshes) = 0)
           THEN /\ pc' = "aborted"
                /\ error' = "assert"
                /\ UNCHANGED <<builderNodes, mAiToFalcorNodeID, mAiNodes, parseStack>>
           ELSE /\ builderNodes' = addNode(builderNodes, n)
                /\ mAiToFalcorNodeID' =
                       addAiNodeID(mAiToFalcorNodeID, pCurrent, addNodeID(builderNodes))
                /\ mAiNodes' = addAiNodeName(mAiNodes, pCurrent)
                /\ parseStack' = rest
                /\ pc' = IF rest = <<>> THEN "createMeshes" ELSE "parseNode"
                /\ UNCHANGED error
    /\ UNCHANGED <<lookupLocals, materialLocals, assertsEnabled, boneLocals, importMode, inputVars, localToBindPoseMatrices, meshMap,
                   builderMeshes, builderMeshInstances, instStack, meshLocals, animVars>>

\* ----------------------------------------------------------------------
\* createMeshes
\* ----------------------------------------------------------------------

\* The face filter of lines 529-538: HasFaces() and mFaces->mNumIndices == 3.
passesFilter(m) == aiMesh(m).kind = "triangles"

RECURSIVE filterMeshes(_)
\* Lines 526-540: the meshes that pass the filter, in mesh-list order, from mesh
\* index m on.
filterMeshes(m) ==
    IF m >= mNumMeshes THEN <<>>
    ELSE (IF passesFilter(m) THEN <<m>> ELSE <<>>) \o filterMeshes(m + 1)

\* A default-constructed SceneBuilder::ProcessedMesh.  Its empty name is written
\* like the names processMesh gives, <<text, mesh>>.
EmptyProcessedMesh == [name |-> <<"", kInvalidID>>, aiMesh |-> kInvalidID]

\* SceneBuilder::processMesh of the mesh built from aiMesh m (lines 546-604).
processMesh(m) == [name |-> <<"mesh", m>>, aiMesh |-> m]

\* A task that puts its result in the first slot still empty: the results end up
\* in completion order.
storeProcessedMeshInCompletionOrder(slots, i, result) ==
    LET k == CHOOSE k \in DOMAIN slots :
                 /\ slots[k].aiMesh = kInvalidID
                 /\ \A j \in 1..(k - 1) : slots[j].aiMesh # kInvalidID
    IN  [slots EXCEPT ![k] = result]

\* A task that puts its result in the last slot, whichever mesh it processed.
storeProcessedMeshInLastSlot(slots, i, result) == [slots EXCEPT ![Len(slots)] = result]

\* Line 604: the task's result goes to the task's own slot.
storeProcessedMesh(slots, i, result) == [slots EXCEPT ![i] = result]

\* SceneBuilder::addProcessedMesh: the mesh is appended and its id is its
\* position, counted from 0.
addProcessedMeshID(list) == Len(list)
addProcessedMesh(list, mesh) == Append(list, mesh)

\* Line 614: data.meshMap[i++] = meshID.
setMeshMap(map, i, meshID) == (i :> meshID) @@ map

\* Lines 526-544: the filter, and the pre-sized results vector.
CreateMeshesFilter ==
    /\ pc = "createMeshes"
    /\ meshes' = filterMeshes(0)
    /\ processedMeshes' = [i \in 1..Len(filterMeshes(0)) |-> EmptyProcessedMesh]
    /\ completed' = <<>>
    /\ commitIndex' = 0
    /\ pc' = IF filterMeshes(0) = <<>> THEN "addMeshInstances" ELSE "processMeshes"
    /\ UNCHANGED <<lookupLocals, materialLocals, assertsEnabled, boneLocals, error, importMode, inputVars, dataVars,
                   builderSceneVars, parseStack, instStack, animVars>>

\* The task of a mesh with bones calls loadBones (lines 593-595), whose
\* FALCOR_ASSERT at line 474 fails, or throws from mAiNodes.at, unless every
\* bone names exactly one node.
loadBonesFails(m) ==
    \E k \in DOMAIN aiMesh(m).mBones :
        \/ assertsEnabled /\ getNodeInstanceCountThrows(aiMesh(m).mBones[k].mName)
        \/ AssertFails(getNodeInstanceCount(aiMesh(m).mBones[k].mName) = 1)

\* One task of the parallel for_each (lines 545-605), here for i counted from 1.
\* The tasks run in any order; for_each returns when the last has finished.  A
\* failure inside a task ends the program.
ProcessMesh(i) ==
    /\ pc = "processMeshes"
    /\ i \in DOMAIN meshes
    /\ i \notin Range(completed)
    /\ IF loadBonesFails(meshes[i])
       THEN /\ pc' = "aborted"
            /\ error' = "terminate"
            /\ UNCHANGED <<processedMeshes, completed>>
       ELSE /\ processedMeshes' =
                   storeProcessedMesh(processedMeshes, i, processMesh(meshes[i]))
            /\ completed' = Append(completed, i)
            /\ pc' = IF Len(completed) + 1 = Len(meshes)
                     THEN "commitMeshes" ELSE "processMeshes"
            /\ UNCHANGED error
    /\ UNCHANGED <<lookupLocals, materialLocals, assertsEnabled, boneLocals, importMode, inputVars, dataVars,
                   builderSceneVars, parseStack, instStack, meshes, commitIndex, animVars>>

\* One iteration of the commit loop (lines 610-615).
AddProcessedMesh ==
    /\ pc = "commitMeshes"
    /\ commitIndex < Len(processedMeshes)
    /\ builderMeshes' = addProcessedMesh(builderMeshes, processedMeshes[commitIndex + 1])
    /\ meshMap' = setMeshMap(meshMap, commitIndex, addProcessedMeshID(builderMeshes))
    /\ commitIndex' = commitIndex + 1
    /\ pc' = IF commitIndex + 1 = Len(processedMeshes)
             THEN "addMeshInstances" ELSE "commitMeshes"
    /\ UNCHANGED <<lookupLocals, materialLocals, assertsEnabled, boneLocals, error, importMode, inputVars, localToBindPoseMatrices,
                   mAiToFalcorNodeID, mAiNodes, builderNodes, builderMeshInstances,
                   parseStack, instStack, meshes, processedMeshes, completed, animVars>>

\* ----------------------------------------------------------------------
\* addMeshInstances
\* ----------------------------------------------------------------------

\* SceneBuilder::addMeshInstance.  aiMesh, the mesh index the node referenced, is
\* kept beside the pair for the properties below.
addMeshInstance(list, nodeID, meshID, m) ==
    Append(list, [nodeID |-> nodeID, meshID |-> meshID, aiMesh |-> m])

\* Line 727: the instance gets a node of its own unless its matrix equals a
\* default-constructed rmcv::mat4, the identity.
needsInstanceNodeAlways(instance) == TRUE
needsInstanceNode(instance) == modelInstances[instance + 1] # IdentityMatrix

RECURSIVE addModelInstances(_, _, _, _, _)
\* Lines 724-737 from instance index `instance` (counted from 0) on, for one
\* mesh of a node; st = [nodes, instances].
addModelInstances(st, nodeID, meshID, m, instance) ==
    IF instance >= Len(modelInstances) THEN st
    ELSE IF needsInstanceNode(instance)
    THEN LET n == [name     |-> <<"Node", nodeID, "instance", instance>>,
                   parent   |-> nodeID,
                   transform |-> modelInstances[instance + 1],
                   localToBindPose |-> IdentityMatrix]
         IN  addModelInstances(
                 [nodes |-> addNode(st.nodes, n),
                  instances |-> addMeshInstance(st.instances, addNodeID(st.nodes), meshID, m)],
                 nodeID, meshID, m, instance + 1)
    ELSE addModelInstances(
             [nodes |-> st.nodes,
              instances |-> addMeshInstance(st.instances, nodeID, meshID, m)],
             nodeID, meshID, m, instance + 1)

\* Line 720: data.meshMap.at(index) throws when the map has no such key.
meshMapAtThrows(index) == index \notin DOMAIN meshMap

RECURSIVE addNodeMeshes(_, _, _)
\* Lines 718-740 for the node's mesh references refs; st = [nodes, instances,
\* thrown].  An exception ends the loop where it is raised.
addNodeMeshes(st, nodeID, refs) ==
    IF refs = <<>> THEN st
    ELSE IF meshMapAtThrows(Head(refs)) THEN [st EXCEPT !.thrown = TRUE]
    ELSE LET meshID == meshMap[Head(refs)]
             next == IF Len(modelInstances) > 0
                     THEN addModelInstances([nodes |-> st.nodes, instances |-> st.instances],
                                            nodeID, meshID, Head(refs), 0)
                     ELSE [nodes |-> st.nodes,
                           instances |-> addMeshInstance(st.instances, nodeID, meshID,
                                                         Head(refs))]
         IN  addNodeMeshes([nodes |-> next.nodes, instances |-> next.instances,
                            thrown |-> FALSE], nodeID, Tail(refs))

\* One call of addMeshInstances (lines 715-747); the first is import()'s call on
\* the root at line 1056.
AddMeshInstances ==
    /\ pc = "addMeshInstances"
    /\ instStack # <<>>
    /\ LET pNode == Head(instStack)
           st == addNodeMeshes([nodes |-> builderNodes, instances |-> builderMeshInstances,
                                thrown |-> FALSE],
                               mAiToFalcorNodeID[pNode], aiNode(pNode).mMeshes)
           rest == mChildren(pNode) \o Tail(instStack)
       IN  /\ builderNodes' = st.nodes
           /\ builderMeshInstances' = st.instances
           /\ IF st.thrown
              THEN /\ pc' = "aborted"
                   /\ error' = "out_of_range"
                   /\ UNCHANGED instStack
              ELSE /\ instStack' = rest
                   /\ pc' = IF rest = <<>> THEN "sceneDone" ELSE "addMeshInstances"
                   /\ UNCHANGED error
    /\ UNCHANGED <<lookupLocals, materialLocals, assertsEnabled, boneLocals, importMode, inputVars, dataVars, builderMeshes,
                   parseStack, meshLocals, animVars>>

\* ----------------------------------------------------------------------
\* loadBones
\* ----------------------------------------------------------------------
\* A float is kept exact as the quotient num/den; 0/0 is the NaN an IEEE 754
\* division of zero by zero gives.  ids[v + 1] and weights[v + 1] are the uint4
\* and float4 of vertex v, their components numbered from 1.

Slots == 1..kMaxBonesPerVertex

\* float4(0.f) and uint4(NodeID::kInvalidID) (lines 467-468).
ZeroWeights == [j \in Slots |-> Rat(0, 1)]
InvalidIds == [j \in Slots |-> kInvalidID]

\* Lines 482-507 for one aiVertexWeight of the bone with id aiBoneID: a zero
\* weight is skipped, the first slot holding kInvalidID takes the influence, and
\* with no such slot the influence is dropped (a warning is logged).
assignWeight(st, aiBoneID, aiWeight) ==
    IF aiWeight.mWeight = 0 THEN st
    ELSE LET v == aiWeight.mVertexId + 1
             unused == {j \in Slots : st.ids[v][j] = kInvalidID}
         IN  IF unused = {} THEN st
             ELSE LET j == CHOOSE k \in unused : \A l \in unused : k <= l
                  IN  [ids     |-> [st.ids EXCEPT ![v][j] = aiBoneID],
                       weights |-> [st.weights EXCEPT ![v][j] = Rat(aiWeight.mWeight, 1)]]

RECURSIVE assignWeights(_, _, _, _)
\* The loop of lines 479-508 from weightID (counted from 1) on.
assignWeights(st, aiBoneID, mWeights, weightID) ==
    IF weightID > Len(mWeights) THEN st
    ELSE assignWeights(assignWeight(st, aiBoneID, mWeights[weightID]),
                       aiBoneID, mWeights, weightID + 1)

RECURSIVE sumWeights(_, _)
\* f of line 516: w[1] + ... + w[j], the weights not yet divided.
sumWeights(w, j) == IF j = 0 THEN 0 ELSE sumWeights(w, j - 1) + w[j].num

\* Lines 514-517 for one vertex: every component is divided by the sum.
normalizeBySlotCount(w) == [j \in Slots |-> Rat(w[j].num, kMaxBonesPerVertex)]
normalizeWeights(w) ==
    [j \in Slots |-> Rat(w[j].num, sumWeights(w, kMaxBonesPerVertex))]

\* Lines 462-468: both vectors are sized and filled.
LoadBonesBegin ==
    /\ pc = "loadBones"
    /\ weights' = [v \in 1..pAiMesh.mNumVertices |-> ZeroWeights]
    /\ ids' = [v \in 1..pAiMesh.mNumVertices |-> InvalidIds]
    /\ bone' = 0
    /\ pc' = IF bone' < Len(pAiMesh.mBones) THEN "bone" ELSE "normalize"
    /\ UNCHANGED <<lookupLocals, materialLocals, assertsEnabled, error, importMode, sceneVars, mAiNodes, animVars,
                   pAiMesh>>

\* Lines 471-509: one iteration of the loop over the bones.  The argument of
\* FALCOR_ASSERT is evaluated only where assertions are compiled in.
LoadBone ==
    /\ pc = "bone"
    /\ bone < Len(pAiMesh.mBones)
    /\ LET pAiBone == pAiMesh.mBones[bone + 1]
       IN  IF assertsEnabled /\ getNodeInstanceCountThrows(pAiBone.mName)
           THEN /\ pc' = "aborted"
                /\ error' = "out_of_range"
                /\ UNCHANGED <<ids, weights, bone>>
           ELSE IF AssertFails(getNodeInstanceCount(pAiBone.mName) = 1)
           THEN /\ pc' = "aborted"
                /\ error' = "assert"
                /\ UNCHANGED <<ids, weights, bone>>
           ELSE LET aiBoneID == getFalcorNodeID(pAiBone.mName, 0)
                    st == assignWeights([ids |-> ids, weights |-> weights], aiBoneID,
                                        pAiBone.mWeights, 1)
                IN  /\ ids' = st.ids
                    /\ weights' = st.weights
                    /\ bone' = bone + 1
                    /\ pc' = IF bone' < Len(pAiMesh.mBones) THEN "bone" ELSE "normalize"
                    /\ UNCHANGED error
    /\ UNCHANGED <<lookupLocals, materialLocals, assertsEnabled, importMode, sceneVars, mAiNodes, animVars, pAiMesh>>

\* Lines 511-518: the weights of every vertex are divided by their sum.
NormalizeWeights ==
    /\ pc = "normalize"
    /\ weights' = [v \in DOMAIN weights |-> normalizeWeights(weights[v])]
    /\ pc' = "bonesDone"
    /\ UNCHANGED <<lookupLocals, materialLocals, assertsEnabled, error, importMode, sceneVars, mAiNodes, animVars,
                   pAiMesh, ids, bone>>

\* ----------------------------------------------------------------------
\* The scenes the stages are run on
\* ----------------------------------------------------------------------

RECURSIVE ReachesRoot(_, _, _)
\* Whether following the parents p from node i reaches the null parent in k steps.
ReachesRoot(p, i, k) ==
    IF i = 0 THEN TRUE
    ELSE IF k = 0 THEN FALSE
    ELSE ReachesRoot(p, p[i], k - 1)

\* The parent vectors of the trees on nodes 1..n with root 1.  The children of a
\* node are listed in the order of their numbers.
Trees(n) == {p \in [1..n -> 0..n] :
                /\ p[1] = 0
                /\ \A i \in 2..n : p[i] # 0 /\ ReachesRoot(p, i, n)}

\* The bone list of mesh m that names the bones in `names`, in that order.
BonesNamed(m, names) ==
    [k \in DOMAIN names |-> [mName |-> names[k], mOffsetMatrix |-> <<"offset", m, k>>]]

\* The scene with the given tree, names, transforms, mesh references of the
\* nodes, and kinds and bone names of the meshes.
MakeScene(p, names, transforms, refs, kinds, bones) ==
    [nodes  |-> [i \in DOMAIN p |->
                    [mName |-> names[i], mParent |-> p[i], mMeshes |-> refs[i],
                     mTransformation |-> transforms[i]]],
     meshes |-> [j \in DOMAIN kinds |->
                    [kind |-> kinds[j], mBones |-> BonesNamed(j - 1, bones[j])]]]

\* The state import() starts the stages in (lines 1036-1038), but for the scene.
ImportBegin ==
    /\ pc = "validateScene"
    /\ BonesIdle
    /\ LookupIdle
    /\ MaterialIdle
    /\ error = "none"
    /\ importMode = "Default"
    /\ localToBindPoseMatrices = <<>>
    /\ mAiToFalcorNodeID = <<>>
    /\ mAiNodes = <<>>
    /\ meshMap = <<>>
    /\ builderNodes = <<>>
    /\ builderMeshes = <<>>
    /\ builderMeshInstances = <<>>
    /\ builderAnimations = <<>>
    /\ parseStack = <<[node |-> 1, hasBoneAncestor |-> FALSE]>>
    /\ instStack = <<1>>
    /\ meshes = <<>>
    /\ processedMeshes = <<>>
    /\ completed = <<>>
    /\ commitIndex = 0
    /\ pAiAnim = <<>>
    /\ animations = <<>>
    /\ pos = 1 /\ rot = 1 /\ scale = 1
    /\ keyframe = DefaultKeyframe
    /\ done = FALSE

MeshKinds == {"triangles", "nofaces", "nontriangles"}
Transforms == {IdentityMatrix, "T"}

\* Scenes for createMeshes and addMeshInstances: up to MaxMeshNodes nodes and
\* MaxMeshes meshes of every kind, no bones, each node referencing at most one mesh.
InitMesh ==
    /\ ImportBegin
    /\ assertsEnabled \in BOOLEAN
    /\ \E n \in 1..MaxMeshNodes, k \in 1..MaxMeshes :
       \E p \in Trees(n),
          refs \in [1..n -> {<<>>} \cup {<<m>> : m \in 0..(k - 1)}],
          kinds \in [1..k -> MeshKinds] :
          pScene = MakeScene(p, [i \in 1..n |-> "a"], [i \in 1..n |-> IdentityMatrix],
                             refs, kinds, [j \in 1..k |-> <<>>])
    /\ modelInstances \in SeqsUpTo(Transforms, MaxModelInstances)

NextMesh ==
    \/ ValidateScene
    \/ CreateSceneGraph
    \/ ParseNode
    \/ CreateMeshesFilter
    \/ \E i \in 1..MaxMeshes : ProcessMesh(i)
    \/ AddProcessedMesh
    \/ AddMeshInstances

SpecMesh == InitMesh /\ [][NextMesh]_vars

\* Scenes for validateBones: a root and its children, up to MaxValNodes nodes
\* with any transforms, up to MaxValMeshes triangle meshes, each with the bone
\* "a" or with no bone, each node referencing at most two meshes.  validateBones
\* reads the tree only through the order of countMeshInstances' walk.
NodeMeshLists(k) ==
    {<<>>} \cup {<<m>> : m \in 0..(k - 1)}
           \cup {r \in {<<m1, m2>> : m1 \in 0..(k - 1), m2 \in 0..(k - 1)} : r[1] < r[2]}

InitValidate ==
    /\ ImportBegin
    /\ assertsEnabled = FALSE
    /\ \E n \in 1..MaxValNodes, k \in 1..MaxValMeshes :
       \E transforms \in [1..n -> Transforms],
          refs \in [1..n -> NodeMeshLists(k)],
          bones \in [1..k -> {<<>>, <<"a">>}] :
          pScene = MakeScene([i \in 1..n |-> IF i = 1 THEN 0 ELSE 1],
                             [i \in 1..n |-> "r"], transforms, refs,
                             [j \in 1..k |-> "triangles"], bones)
    /\ modelInstances = <<>>

NextValidate == ValidateScene

SpecValidate == InitValidate /\ [][NextValidate]_vars

\* Scenes for createSceneGraph: up to MaxNodes nodes named "a" or "b", one
\* triangle mesh that any node may carry, with bones of these names.
InitGraph ==
    /\ ImportBegin
    /\ assertsEnabled \in BOOLEAN
    /\ \E n \in 1..MaxNodes :
       \E p \in Trees(n),
          names \in [1..n -> Range(NameOrder)],
          refs \in [1..n -> {<<>>, <<0>>}],
          bones \in {<<>>, <<"a">>, <<"b">>, <<"a", "b">>} :
          pScene = MakeScene(p, names, [i \in 1..n |-> IdentityMatrix], refs,
                             <<"triangles">>, <<bones>>)
    /\ modelInstances = <<>>

NextGraph ==
    \/ ValidateScene
    \/ CreateSceneGraph
    \/ ParseNode

SpecGraph == InitGraph /\ [][NextGraph]_vars

\* Scenes for instance expansion: up to MaxInstNodes nodes, two triangle meshes
\* without bones, each node carrying none, the first or both of them, and up to
\* MaxInstances instance transforms.
InitInstances ==
    /\ ImportBegin
    /\ assertsEnabled \in BOOLEAN
    /\ \E n \in 1..MaxInstNodes :
       \E p \in Trees(n), refs \in [1..n -> {<<>>, <<0>>, <<0, 1>>}] :
          pScene = MakeScene(p, [i \in 1..n |-> "r"], [i \in 1..n |-> IdentityMatrix],
                             refs, <<"triangles", "triangles">>, <<<<>>, <<>>>>)
    /\ modelInstances \in SeqsUpTo(Transforms, MaxInstances)

SpecInstances == InitInstances /\ [][NextMesh]_vars

\* Scenes for the stages of import() in their order: up to MaxMeshNodes nodes,
\* none named like a bone, each referencing at most one mesh; up to MaxMeshes
\* meshes with or without faces, each with the bone "a" or with no bone.
InitImport ==
    /\ ImportBegin
    /\ assertsEnabled \in BOOLEAN
    /\ \E n \in 1..MaxMeshNodes, k \in 1..MaxMeshes :
       \E p \in Trees(n),
          refs \in [1..n -> {<<>>} \cup {<<m>> : m \in 0..(k - 1)}],
          kinds \in [1..k -> {"triangles", "nofaces"}],
          bones \in [1..k -> {<<>>, <<"a">>}] :
          pScene = MakeScene(p, [i \in 1..n |-> "r"], [i \in 1..n |-> IdentityMatrix],
                             refs, kinds, bones)
    /\ modelInstances = <<>>

NextImport ==
    \/ ValidateScene
    \/ CreateSceneGraph
    \/ ParseNode
    \/ CreateMeshesFilter
    \/ \E i \in 1..MaxMeshes : ProcessMesh(i)
    \/ AddProcessedMesh
    \/ AddMeshInstances

SpecImport == InitImport /\ [][NextImport]_vars

\* The vertex weights a bone may list: vertex 0 with a weight of 0, 1 or 2, or
\* vertex 1 with a weight of 1.
BoneVertices == {0, 1}
BoneVertexWeights ==
    {[mVertexId |-> 0, mWeight |-> w] : w \in 0..2} \cup {[mVertexId |-> 1, mWeight |-> 1]}

\* The name of the k-th bone, and the node that carries it.
BoneName(k) == <<"bone", k>>

\* A skinned mesh for loadBones: 1..MaxBones bones of distinct names, each listing
\* one vertex weight; the first bone may list a second one, for vertex 0.  The
\* scene graph is built: node k + 1 carries the name of bone k and has id k, but
\* the first bone may name no node.
InitBones ==
    /\ assertsEnabled \in BOOLEAN
    /\ pc = "loadBones"
    /\ error = "none"
    /\ importMode = "Default"
    /\ SceneIdle
    /\ LookupIdle
    /\ MaterialIdle
    /\ pAiAnim = <<>>
    /\ builderAnimations = <<>>
    /\ animations = <<>>
    /\ pos = 1 /\ rot = 1 /\ scale = 1
    /\ keyframe = DefaultKeyframe
    /\ done = FALSE
    /\ \E ws \in SeqsUpTo(BoneVertexWeights, MaxBones), first \in 1..2,
          more \in {<<>>, <<[mVertexId |-> 0, mWeight |-> 2]>>} :
          /\ Len(ws) >= 1
          /\ pAiMesh = [mNumVertices |-> Cardinality(BoneVertices),
                        mBones |-> [k \in DOMAIN ws |->
                                       [mName |-> BoneName(k),
                                        mWeights |-> IF k = 1 THEN <<ws[k]>> \o more
                                                     ELSE <<ws[k]>>]]]
          /\ mAiNodes = [nm \in {BoneName(k) : k \in first..Len(ws)} |-> <<nm[2] + 1>>]
          /\ mAiToFalcorNodeID = [n \in 1..(Len(ws) + 1) |-> n - 1]
    /\ ids = <<>>
    /\ weights = <<>>
    /\ bone = 0

NextBones ==
    \/ LoadBonesBegin
    \/ LoadBone
    \/ NormalizeWeights

SpecBones == InitBones /\ [][NextBones]_vars

\* ----------------------------------------------------------------------
\* ImporterData::getFalcorNodeID(name, index) on its own
\* ----------------------------------------------------------------------

\* What the read mAiNodes.at(aiNodeName)[index] past the vector's end can lead
\* to: the value read is no registered aiNode (mAiToFalcorNodeID.at throws, the
\* catch gives NodeID::Invalid()), or it happens to be one (its id is returned),
\* or the read itself faults.
outOfRangeReadResults == {kInvalidID} \cup Range(mAiToFalcorNodeID)

\* Lines 165-175: one call of getFalcorNodeID(aiNodeName, index).
GetFalcorNodeID ==
    /\ pc = "getFalcorNodeID"
    /\ IF getFalcorNodeIDDefined(lookup.aiNodeName, lookup.index)
       THEN /\ lookupResult' = getFalcorNodeID(lookup.aiNodeName, lookup.index)
            /\ pc' = "lookupDone"
            /\ UNCHANGED error
       ELSE \/ /\ lookupResult' \in outOfRangeReadResults
               /\ pc' = "lookupDone"
               /\ UNCHANGED error
            \/ /\ pc' = "aborted"
               /\ error' = "segfault"
               /\ UNCHANGED lookupResult
    /\ UNCHANGED <<materialLocals, assertsEnabled, boneLocals, importMode, sceneVars,
                   mAiNodes, animVars, lookup>>

\* The names a lookup may ask for; "x" is carried by no node.
LookupNames == {"n", "m", "x"}

\* The nodes of `order` (node names in traversal order) that carry the name nm,
\* in traversal order: what addAiNode leaves in mAiNodes[nm].
nodesNamed(order, nm) ==
    LET idx == {k \in DOMAIN order : order[k] = nm}
    IN  [i \in 1..Cardinality(idx) |->
            CHOOSE k \in idx : Cardinality({j \in idx : j < k}) = i - 1]

\* The scene graph is built from 1..MaxLookupNodes nodes named "n" or "m" (ids
\* are given in traversal order, from 0); one lookup is about to be made.
InitLookup ==
    /\ assertsEnabled \in BOOLEAN
    /\ pc = "getFalcorNodeID"
    /\ error = "none"
    /\ importMode = "Default"
    /\ SceneIdle
    /\ BonesIdle
    /\ MaterialIdle
    /\ pAiAnim = <<>>
    /\ builderAnimations = <<>>
    /\ animations = <<>>
    /\ pos = 1 /\ rot = 1 /\ scale = 1
    /\ keyframe = DefaultKeyframe
    /\ done = FALSE
    /\ \E order \in SeqsUpTo({"n", "m"}, MaxLookupNodes) :
          /\ Len(order) >= 1
          /\ mAiNodes = [nm \in Range(order) |-> nodesNamed(order, nm)]
          /\ mAiToFalcorNodeID = [k \in DOMAIN order |-> k - 1]
    /\ lookup \in [aiNodeName : LookupNames, index : 0..MaxLookupIndex]
    /\ lookupResult = kInvalidID

NextLookup ==
    \/ GetFalcorNodeID

SpecLookup == InitLookup /\ [][NextLookup]_vars

\* ----------------------------------------------------------------------
\* loadTextures
\* ----------------------------------------------------------------------

\* Lines 115-141.  The metallic-roughness key of the GLTF2 table stands for the
\* pair (aiTextureType_UNKNOWN, 0).
kTextureMappings ==
    [mode \in ImportModes |->
        CASE mode = "Default" ->
               << [aiType |-> "DIFFUSE",  aiIndex |-> 0, targetType |-> "BaseColor"],
                  [aiType |-> "SPECULAR", aiIndex |-> 0, targetType |-> "Specular"],
                  [aiType |-> "EMISSIVE", aiIndex |-> 0, targetType |-> "Emissive"],
                  [aiType |-> "NORMALS",  aiIndex |-> 0, targetType |-> "Normal"] >>
          [] mode = "OBJ" ->
               << [aiType |-> "DIFFUSE",  aiIndex |-> 0, targetType |-> "BaseColor"],
                  [aiType |-> "SPECULAR", aiIndex |-> 0, targetType |-> "Specular"],
                  [aiType |-> "EMISSIVE", aiIndex |-> 0, targetType |-> "Emissive"],
                  [aiType |-> "HEIGHT",   aiIndex |-> 0, targetType |-> "Normal"],
                  [aiType |-> "DISPLACEMENT", aiIndex |-> 0, targetType |-> "Normal"] >>
          [] mode = "GLTF2" ->
               << [aiType |-> "DIFFUSE",  aiIndex |-> 0, targetType |-> "BaseColor"],
                  [aiType |-> "EMISSIVE", aiIndex |-> 0, targetType |-> "Emissive"],
                  [aiType |-> "NORMALS",  aiIndex |-> 0, targetType |-> "Normal"],
                  [aiType |-> "UNKNOWN",  aiIndex |-> 0, targetType |-> "Specular"] >>]

\* The aiTextureType values the tables name.
TextureTypes ==
    {"DIFFUSE", "SPECULAR", "EMISSIVE", "NORMALS", "HEIGHT", "DISPLACEMENT", "UNKNOWN"}

\* aiMaterial::GetTextureCount and aiMaterial::GetTexture: the material holds,
\* per texture type, the paths of its textures (a path is a sequence of
\* characters).
GetTextureCount(type) == Len(pAiMaterial[type])
GetTexture(type, index) == pAiMaterial[type][index + 1]

\* Line 763: std::replace(path.begin(), path.end(), '\\', '/').
replaceBackslashes(path) ==
    [i \in DOMAIN path |-> IF path[i] = "\\" THEN "/" ELSE path[i]]

\* The folder of the imported file (line 1042).
searchPath == <<"s">>

\* Line 771: searchPath / path.
fullPathOf(path) == searchPath \o <<"/">> \o path

\* Lines 753-773: one iteration of the loop over the mode's mappings.
LoadTexture ==
    /\ pc = "loadTextures"
    /\ LET textureMappings == kTextureMappings[importMode]
           src  == textureMappings[source]
           last == source = Len(textureMappings)
       IN  /\ IF GetTextureCount(src.aiType) < src.aiIndex + 1
              THEN UNCHANGED loadedTextures
              ELSE LET path == replaceBackslashes(GetTexture(src.aiType, src.aiIndex))
                   IN  IF path = <<>>
                       THEN UNCHANGED loadedTextures
                       ELSE loadedTextures' =
                               Append(loadedTextures,
                                      [slot |-> src.targetType,
                                       path |-> fullPathOf(path),
                                       aiType |-> src.aiType])
           /\ source' = source + 1
           /\ pc' = IF last THEN "texturesDone" ELSE "loadTextures"
    /\ UNCHANGED <<lookupLocals, assertsEnabled, boneLocals, error, importMode, sceneVars,
                   mAiNodes, animVars, pAiMaterial>>

\* The textures a material may hold under one texture type: none, one with an
\* empty file name, or one with a Windows-style path.
TexturesOfType == {<<>>, << <<>> >>, << <<"d", "\\", "t">> >>}

\* One material of a file of any import mode is about to have its textures
\* loaded.
InitTextures ==
    /\ assertsEnabled \in BOOLEAN
    /\ pc = "loadTextures"
    /\ error = "none"
    /\ importMode \in ImportModes
    /\ SceneIdle
    /\ BonesIdle
    /\ LookupIdle
    /\ mAiNodes = <<>>
    /\ mAiToFalcorNodeID = <<>>
    /\ pAiAnim = <<>>
    /\ builderAnimations = <<>>
    /\ animations = <<>>
    /\ pos = 1 /\ rot = 1 /\ scale = 1
    /\ keyframe = DefaultKeyframe
    /\ done = FALSE
    /\ pAiMaterial \in [TextureTypes -> TexturesOfType]
    /\ source = 1
    /\ loadedTextures = <<>>

NextTextures ==
    \/ LoadTexture

SpecTextures == InitTextures /\ [][NextTextures]_vars

\* ----------------------------------------------------------------------
\* Properties of createAnimation
\* ----------------------------------------------------------------------

\* The times, in ticks, of the keyframes handed to addKeyframe for animation a.
AppendedTicks(a) == [i \in DOMAIN a.appended |-> a.appended[i].time.num]

\* The distinct key times of the channel (after the clamp of the first keys).
ChannelTimes ==
    LET ch == pAiAnim.channel
    IN  {ch.mPositionKeys[i].mTime : i \in DOMAIN ch.mPositionKeys}
        \cup {ch.mRotationKeys[i].mTime : i \in DOMAIN ch.mRotationKeys}
        \cup {ch.mScalingKeys[i].mTime : i \in DOMAIN ch.mScalingKeys}

\* Each key array of the channel is strictly ascending in time.
StrictlyAscending(keys) == \A i \in 1..(Len(keys) - 1) : keys[i].mTime < keys[i + 1].mTime
ChannelStrictlyAscending ==
    /\ StrictlyAscending(pAiAnim.channel.mPositionKeys)
    /\ StrictlyAscending(pAiAnim.channel.mRotationKeys)
    /\ StrictlyAscending(pAiAnim.channel.mScalingKeys)

\* C1: for a channel whose three key arrays are each sorted ascending by time,
\* the keyframes createAnimation appends to an animation have strictly increasing
\* times: each appended keyframe's time is greater than the time of the keyframe
\* appended before it.
C1_AppendedTimesStrictlyIncreasing ==
    ChannelStrictlyAscending =>
        \A a \in DOMAIN builderAnimations :
            LET kfs == builderAnimations[a].appended
            IN  \A i \in 1..(Len(kfs) - 1) : RatGT(kfs[i + 1].time, kfs[i].time)

\* C2: when the merge of a channel has finished, it has emitted exactly one
\* keyframe per distinct time of the union of the three key arrays: no time is
\* emitted twice and none is missing.
C2_OneKeyframePerDistinctTime ==
    (pc = "animDone" /\ ChannelStrictlyAscending) =>
        \A a \in DOMAIN builderAnimations :
            LET ticks == AppendedTicks(builderAnimations[a])
            IN  /\ Range(ticks) = ChannelTimes
                /\ \A i, j \in DOMAIN ticks : i # j => ticks[i] # ticks[j]

\* ----------------------------------------------------------------------
\* Properties of createMeshes and addMeshInstances
\* ----------------------------------------------------------------------

\* C3: once the meshes are committed, for every mesh index m that a node
\* references and that passed the face filter, meshMap[m] is the id
\* addProcessedMesh returned for mesh m, also when earlier meshes of the list
\* were skipped; and every mesh instance registered binds its node to the mesh
\* the node references.
C3_MeshMapKeyedByAiMeshIndex ==
    /\ pc \in {"addMeshInstances", "sceneDone", "aborted"} =>
          \A n \in DOMAIN pScene.nodes : \A i \in DOMAIN aiNode(n).mMeshes :
              LET m == aiNode(n).mMeshes[i]
              IN  passesFilter(m) =>
                     /\ m \in DOMAIN meshMap
                     /\ builderMeshes[meshMap[m] + 1].aiMesh = m
    /\ \A k \in DOMAIN builderMeshInstances :
          builderMeshes[builderMeshInstances[k].meshID + 1].aiMesh
             = builderMeshInstances[k].aiMesh

\* C4: a mesh with no faces or with faces that are not triangles never makes the
\* import fail: with such a mesh in the scene the import is not aborted.
C4_SkippedMeshNeverFatal ==
    (\E m \in 0..(mNumMeshes - 1) : ~passesFilter(m)) => pc # "aborted"

\* C5: the processed meshes are added to the builder one at a time in the order
\* of the mesh list, whatever order the parallel tasks finished in, and only
\* after all of them have finished; the ids handed out depend on the scene alone.
C5_CommitInMeshListOrder ==
    /\ Len(builderMeshes) = commitIndex
    /\ Len(builderMeshes) > 0 => Len(completed) = Len(filterMeshes(0))
    /\ \A j \in DOMAIN builderMeshes : builderMeshes[j].aiMesh = filterMeshes(0)[j]
    /\ \A i \in DOMAIN meshMap :
          /\ meshMap[i] = i
          /\ builderMeshes[meshMap[i] + 1].aiMesh = filterMeshes(0)[i + 1]

\* C5's case: two meshes, the second task finished first, both committed.
C5_Witness ==
    /\ completed = <<2, 1>>
    /\ Len(builderMeshes) = 2
    /\ pc = "sceneDone"

\* ----------------------------------------------------------------------
\* Properties of loadBones
\* ----------------------------------------------------------------------

\* The non-zero vertex weights the bones list for vertex v.
Influences(v) ==
    UNION {{<<k, i>> : i \in {i \in DOMAIN pAiMesh.mBones[k].mWeights :
                                  /\ pAiMesh.mBones[k].mWeights[i].mVertexId = v
                                  /\ pAiMesh.mBones[k].mWeights[i].mWeight # 0}} :
           k \in DOMAIN pAiMesh.mBones}

\* Slot j of vertex v holds the source weight of some influence on v, divided
\* by the sum of the vertex's slots.
StoredIsSourceOverSum(v, j) ==
    LET w == weights[v + 1]
    IN  /\ w[j].den = sumWeights(w, kMaxBonesPerVertex)
        /\ w[j].num # 0 =>
              \E inf \in Influences(v) :
                  pAiMesh.mBones[inf[1]].mWeights[inf[2]].mWeight = w[j].num

\* C6: after loadBones, for every vertex that received at least one non-zero
\* influence, each stored weight is a source weight divided by the sum of the
\* weights stored for the vertex, and the weights of its slots sum to 1, also
\* when the source weights did not.
C6_InfluencedWeightsSumToOne ==
    pc = "bonesDone" =>
        \A v \in 0..(pAiMesh.mNumVertices - 1) :
            Influences(v) # {} =>
                LET w == weights[v + 1]
                IN  /\ \A j \in Slots : w[j].den > 0 /\ StoredIsSourceOverSum(v, j)
                    /\ sumWeights(w, kMaxBonesPerVertex) = w[1].den

\* C6's case: vertex 0 took the weights 1 and 2, which do not sum to 1, and
\* holds 1/3 and 2/3 once loadBones has finished.
C6_Witness ==
    /\ pc = "bonesDone"
    /\ weights[1][1] = Rat(1, 3)
    /\ weights[1][2] = Rat(2, 3)

\* The number of slots of vertex v the bones can have written to.
WrittenSlots(v) ==
    IF Cardinality(Influences(v)) < kMaxBonesPerVertex
    THEN Cardinality(Influences(v)) ELSE kMaxBonesPerVertex

\* C7: after loadBones, every slot no bone wrote to holds kInvalidID and a weight
\* of exactly zero, all slots of a vertex without any influence included.
C7_UnusedSlotsInvalidAndZero ==
    pc = "bonesDone" =>
        \A v \in 0..(pAiMesh.mNumVertices - 1) :
            \A j \in Slots :
                j > WrittenSlots(v) =>
                    /\ ids[v + 1][j] = kInvalidID
                    /\ weights[v + 1][j].num = 0
                    /\ weights[v + 1][j].den # 0

\* ----------------------------------------------------------------------
\* Properties of createSceneGraph
\* ----------------------------------------------------------------------

BoneNodeWithMesh(n) ==
    /\ aiNode(n).mName \in DOMAIN createBoneList
    /\ Len(aiNode(n).mMeshes) > 0

BoneMeshHasManyInstances ==
    \E nm \in DOMAIN createBoneMap : \E i \in DOMAIN createBoneMap[nm] :
        Len(countMeshInstances[createBoneMap[nm][i]]) > 1

\* Some bone has two consecutive meshes, each referenced by one node, and the
\* two nodes' transformations differ.
BoneMeshTransformsDiffer ==
    \E nm \in DOMAIN createBoneMap : \E i \in DOMAIN createBoneMap[nm] :
        /\ i > 1
        /\ Len(countMeshInstances[createBoneMap[nm][i]]) = 1
        /\ Len(countMeshInstances[createBoneMap[nm][i - 1]]) = 1
        /\ aiNode(countMeshInstances[createBoneMap[nm][i]][1]).mTransformation
             # aiNode(countMeshInstances[createBoneMap[nm][i - 1]][1]).mTransformation

\* C10 as stated: whenever some bone belongs to a mesh attached to more than one
\* node, validateBones fails with the error 'references a mesh with multiple
\* instances'.
C10_ManyInstancesRaiseMultipleInstances ==
    (pc # "validateScene" /\ BoneMeshHasManyInstances) =>
        (pc = "aborted" /\ error = MultipleInstances)

\* C10, amended: whenever some bone belongs to a mesh attached to more than one
\* node, validateBones fails with a fatal ImporterError, which is 'references a
\* mesh with multiple instances' unless a bone has two consecutive
\* singly-attached meshes whose nodes' transformations differ, in which case it
\* may be 'contained within mesh instances with different world matrices'.
C10_ManyInstancesAreFatal ==
    (pc # "validateScene" /\ BoneMeshHasManyInstances) =>
        /\ pc = "aborted"
        /\ \/ error = MultipleInstances
           \/ error = DifferentWorldMatrices /\ BoneMeshTransformsDiffer

\* C10's case: a bone's mesh is attached to two nodes and validateBones has
\* raised 'references a mesh with multiple instances'.
C10_Witness ==
    /\ pc = "aborted"
    /\ error = MultipleInstances
    /\ BoneMeshHasManyInstances

\* The transforms of the scenes are translations along one axis: the identity
\* moves by 0, "T" by one unit, and a product of translations moves by the sum.
TranslationOf(t) == IF t = IdentityMatrix THEN 0 ELSE 1

RECURSIVE WorldTransform(_)
\* The world transform of node n: the product of the local transforms from the
\* root down to n.
WorldTransform(n) ==
    IF n = 0 THEN 0
    ELSE WorldTransform(aiNode(n).mParent) + TranslationOf(aiNode(n).mTransformation)

\* C11: when validateBones passes, the mesh instances of the meshes that share
\* a bone all carry the same world transform; that is, it fails whenever two of
\* them carry different world transforms.
C11_PassImpliesEqualWorldTransforms ==
    pc = "createSceneGraph" =>
        \A nm \in DOMAIN createBoneMap : \A i, j \in DOMAIN createBoneMap[nm] :
            \A a \in Range(countMeshInstances[createBoneMap[nm][i]]) :
                \A b \in Range(countMeshInstances[createBoneMap[nm][j]]) :
                    WorldTransform(a) = WorldTransform(b)

\* ----------------------------------------------------------------------
\* Properties of import()
\* ----------------------------------------------------------------------

\* Nothing has been registered with the scene builder or recorded in
\* ImporterData, and no mesh task has run.
NothingRegistered ==
    /\ builderNodes = <<>>
    /\ builderMeshes = <<>>
    /\ builderMeshInstances = <<>>
    /\ builderAnimations = <<>>
    /\ mAiToFalcorNodeID = <<>>
    /\ meshMap = <<>>
    /\ processedMeshes = <<>>
    /\ completed = <<>>

\* The import ended with one of validateBones' ImporterErrors.
ValidationFailed ==
    pc = "aborted" /\ error \in {MultipleInstances, DifferentWorldMatrices}

NonIdentityInstances ==
    {i \in DOMAIN modelInstances : modelInstances[i] # IdentityMatrix}

\* The nodes addMeshInstances added: those after the nodes of the scene graph.
IsInstanceNode(nodeID) == nodeID >= Len(pScene.nodes)

\* The mesh-instance bindings made for the attachment of mesh m to node p: they
\* bind to p's node or to an instance node parented under it.
BindingsOf(p, m) ==
    {k \in DOMAIN builderMeshInstances :
        /\ builderMeshInstances[k].aiMesh = m
        /\ \/ builderMeshInstances[k].nodeID = mAiToFalcorNodeID[p]
           \/ /\ IsInstanceNode(builderMeshInstances[k].nodeID)
              /\ builderNodes[builderMeshInstances[k].nodeID + 1].parent
                    = mAiToFalcorNodeID[p]}

\* The instance nodes the bindings of the attachment bind to.
InstanceNodesOf(p, m) ==
    {builderMeshInstances[k].nodeID : k \in
        {k \in BindingsOf(p, m) : IsInstanceNode(builderMeshInstances[k].nodeID)}}

\* C13: once addMeshInstances has finished, every mesh attachment of every node
\* has, with N >= 1 requested transforms of which K are not the identity, exactly
\* N bindings and K new nodes, each new node parented under the mesh's node and
\* carrying the transform of its instance, and N - K bindings to the original
\* node; with no requested transform it has exactly one binding, to the original
\* node, and no new node.
C13_InstanceExpansion ==
    pc = "sceneDone" =>
        \A p \in DOMAIN pScene.nodes : \A a \in DOMAIN aiNode(p).mMeshes :
            LET m == aiNode(p).mMeshes[a]
                N == Len(modelInstances)
                K == Cardinality(NonIdentityInstances)
                original == {k \in BindingsOf(p, m) :
                                builderMeshInstances[k].nodeID = mAiToFalcorNodeID[p]}
            IN  IF N = 0
                THEN Cardinality(BindingsOf(p, m)) = 1 /\ InstanceNodesOf(p, m) = {}
                ELSE /\ Cardinality(BindingsOf(p, m)) = N
                     /\ Cardinality(InstanceNodesOf(p, m)) = K
                     /\ Cardinality(original) = N - K
                     /\ \A id \in InstanceNodesOf(p, m) :
                           LET n == builderNodes[id + 1]
                           IN  /\ n.parent = mAiToFalcorNodeID[p]
                               /\ n.name[4] + 1 \in NonIdentityInstances
                               /\ n.transform = modelInstances[n.name[4] + 1]

\* C13's case: two transforms were requested, one of them the identity, and a
\* node carrying two meshes has been expanded.
C13_Witness ==
    /\ pc = "sceneDone"
    /\ Len(modelInstances) = 2
    /\ Cardinality(NonIdentityInstances) = 1
    /\ \E p \in DOMAIN pScene.nodes : Len(aiNode(p).mMeshes) = 2

\* ----------------------------------------------------------------------
\* Further properties of createAnimation
\* ----------------------------------------------------------------------

\* C14: the external scene is never mutated: no step of the import changes a
\* field of the aiScene or of the aiAnimation, the times and values of the
\* animation keys included.
C14_ExternalSceneNeverMutated ==
    [][pScene' = pScene /\ pAiAnim' = pAiAnim]_vars

\* The keyframes handed to addKeyframe for the channel, in order (the same for
\* every animation of the channel).
Appended == builderAnimations[animations[1]].appended

\* C15 as stated: when the merge of a channel has finished, the last keyframe
\* appended has time equal to the animation's duration divided by the
\* applicable tick rate.
C15_LastKeyframeAtDuration ==
    (pc = "animDone" /\ ChannelStrictlyAscending) =>
        RatEQ(Appended[Len(Appended)].time, durationInSeconds)

\* C15, amended: every keyframe appended for a channel has time equal to the
\* time of a key of the channel divided by the applicable tick rate, which is
\* 1000 in GLTF2 mode whatever rate is declared, and otherwise the declared
\* ticks-per-second, or 25 when 0 is declared; the duration of the animation in
\* seconds is mDuration divided by that same rate.
C15_TimesUseApplicableRate ==
    LET rate == IF importMode = "GLTF2" THEN 1000
                ELSE IF pAiAnim.mTicksPerSecond = 0 THEN 25
                ELSE pAiAnim.mTicksPerSecond
    IN  \A a \in DOMAIN builderAnimations :
            /\ builderAnimations[a].duration = Rat(pAiAnim.mDuration, rate)
            /\ \A i \in DOMAIN builderAnimations[a].appended :
                  /\ builderAnimations[a].appended[i].time.den = rate
                  /\ builderAnimations[a].appended[i].time.num \in ChannelTimes

\* C15's case: in GLTF2 mode, with a declared rate other than 1000, the merge of
\* a channel has finished.
C15_Witness ==
    /\ pc = "animDone"
    /\ importMode = "GLTF2"
    /\ pAiAnim.mTicksPerSecond = 2
    /\ Len(Appended) >= 2

\* Some key array of the channel, as handed to createAnimation, starts with a
\* sample of negative time.
NegativeFirstSample ==
    /\ pc = "createAnimation"
    /\ \/ pAiAnim.channel.mPositionKeys[1].mTime < 0
       \/ pAiAnim.channel.mRotationKeys[1].mTime < 0
       \/ pAiAnim.channel.mScalingKeys[1].mTime < 0

\* C16: when the first sample of one of a channel's key arrays has a negative
\* time, the merged keyframe sequence of the channel starts at time 0: the first
\* keyframe appended has time 0, whatever the first times of the other two
\* arrays are.
C16_ClampedChannelStartsAtZero ==
    [](NegativeFirstSample =>
          []((animations # <<>> /\ Appended # <<>>) => Appended[1].time.num = 0))

\* C17: for a channel whose target name maps to N node instances,
\* createAnimation registers exactly N animations; the i-th is named
\* '<name>.<i>' (i counted from 0) and bound to the node id of the i-th instance
\* in traversal order, the N target ids are distinct, and all N animations
\* receive the identical keyframe sequence.
C17_OneAnimationPerInstance ==
    pc \in {"merge", "animDone"} =>
        LET name      == pAiAnim.channel.mNodeName
            instances == mAiNodes[name]
        IN  /\ Len(builderAnimations) = Len(instances)
            /\ \A i \in DOMAIN instances :
                  /\ builderAnimations[i].name = <<name, i - 1>>
                  /\ builderAnimations[i].nodeID = mAiToFalcorNodeID[instances[i]]
                  /\ builderAnimations[i].appended = builderAnimations[1].appended
            /\ \A i, j \in DOMAIN builderAnimations :
                  i # j => builderAnimations[i].nodeID # builderAnimations[j].nodeID

\* C17's case: the merge of a channel whose name two nodes carry has finished
\* with more than one keyframe.
C17_Witness ==
    /\ pc = "animDone"
    /\ Len(mAiNodes[pAiAnim.channel.mNodeName]) >= 2
    /\ Len(builderAnimations[2].appended) >= 2

\* ----------------------------------------------------------------------
\* Properties of the node lookup and of loadTextures
\* ----------------------------------------------------------------------

C19_OneLoadPerSlot ==
    \A i, j \in DOMAIN loadedTextures :
        i # j => loadedTextures[i].slot # loadedTextures[j].slot

\* ----------------------------------------------------------------------
\* The values of the merged keyframes
\* ----------------------------------------------------------------------

\* The value `held` is the value of the latest key of pKeys at or before tick t,
\* when pKeys has such a key.
HoldsLatestKey(pKeys, t, held) ==
    LET before == {k \in DOMAIN pKeys : pKeys[k].mTime <= t}
    IN  before # {} =>
            held = pKeys[CHOOSE k \in before : \A j \in before : j <= k].mValue

\* C20: each keyframe emitted by the merge holds, for each of translation,
\* rotation and scale, the value of that array's latest key whose time is at or
\* before the keyframe's time: an array with a key at exactly that time
\* contributes it, an array without one keeps its most recent earlier key.
C20_SampleAndHold ==
    ChannelStrictlyAscending =>
        \A a \in DOMAIN builderAnimations :
            \A i \in DOMAIN builderAnimations[a].appended :
                LET kf == builderAnimations[a].appended[i]
                    ch == pAiAnim.channel
                IN  /\ HoldsLatestKey(ch.mPositionKeys, kf.time.num, kf.translation)
                    /\ HoldsLatestKey(ch.mRotationKeys, kf.time.num, kf.rotation)
                    /\ HoldsLatestKey(ch.mScalingKeys, kf.time.num, kf.scaling)

\* ----------------------------------------------------------------------
\* The order of the influences in loadBones
\* ----------------------------------------------------------------------

\* The non-zero entries for vertex v in the weight list of bone k, in list order.
boneInfluencesOn(v, k) ==
    LET OnVertex(w) == w.mVertexId = v /\ w.mWeight # 0
        on == SelectSeq(pAiMesh.mBones[k].mWeights, OnVertex)
    IN  [i \in DOMAIN on |-> [bone |-> k, mWeight |-> on[i].mWeight]]

RECURSIVE influencesOn(_, _)
\* The non-zero entries for vertex v of the first b bones, in bone-list order and
\* then weight-list order.
influencesOn(v, b) ==
    IF b = 0 THEN <<>> ELSE influencesOn(v, b - 1) \o boneInfluencesOn(v, b)

CursorsExhausted ==
    /\ pos > Len(pAiAnim.channel.mPositionKeys)
    /\ rot > Len(pAiAnim.channel.mRotationKeys)
    /\ scale > Len(pAiAnim.channel.mScalingKeys)

SlotWritten(slot) == slot.aiMesh # EmptyProcessedMesh.aiMesh

\* The step is the end of task i: slot i, empty until now, is the one slot that
\* changes.
TaskWritesOwnSlot(i) ==
    /\ i \notin Range(completed)
    /\ ~SlotWritten(processedMeshes[i])
    /\ SlotWritten(processedMeshes'[i])
    /\ \A k \in DOMAIN processedMeshes :
          k # i => processedMeshes'[k].aiMesh = processedMeshes[k].aiMesh
    /\ DOMAIN processedMeshes' = DOMAIN processedMeshes
    /\ completed' = Append(completed, i)

\* C23: during the parallel phase of createMeshes task i writes only slot i of
\* the pre-sized results vector and no other state of the importer, no slot is
\* written by two tasks, and the commit loop starts only after every task has
\* finished, so that every slot the commit reads has been written exactly once
\* and is not written again.
C23_TasksWriteOwnSlotsBeforeCommit ==
    /\ [][(pc = "processMeshes" /\ pc' # "aborted") =>
             /\ \E i \in DOMAIN meshes : TaskWritesOwnSlot(i)
             /\ UNCHANGED <<inputVars, dataVars, builderSceneVars, builderAnimations,
                            meshes, commitIndex>>]_vars
    /\ [](\A a, b \in DOMAIN completed : a # b => completed[a] # completed[b])
    /\ [](pc = "processMeshes" => commitIndex = 0 /\ builderMeshes = <<>>)
    /\ [](pc = "commitMeshes" =>
             /\ Range(completed) = DOMAIN processedMeshes
             /\ \A k \in DOMAIN processedMeshes : SlotWritten(processedMeshes[k]))
    /\ [][pc = "commitMeshes" => UNCHANGED <<processedMeshes, completed>>]_vars

\* C23's case: two tasks, the second finished first, and the commit loop is
\* about to start.
C23_Witness ==
    /\ pc = "commitMeshes"
    /\ commitIndex = 0
    /\ completed = <<2, 1>>

\* ----------------------------------------------------------------------
\* The consumption of the source keys by the merge
\* ----------------------------------------------------------------------

\* In this step the cursor over pKeys stays, or passes one key: a key whose time
\* is the time visited, and whose value the keyframe just appended carries.
ConsumesAtOwnTime(pKeys, cursor, cursorNext, valueNext) ==
    \/ cursorNext = cursor
    \/ /\ cursorNext = cursor + 1
       /\ cursor \in DOMAIN pKeys
       /\ pKeys[cursor].mTime = keyframe'.time.num
       /\ valueNext = pKeys[cursor].mValue

\* Every key of pKeys is found, with its own time, in a keyframe appended.
EveryKeyApplied(pKeys, component) ==
    \A k \in DOMAIN pKeys :
        \E i \in DOMAIN Appended :
            /\ Appended[i].time.num = pKeys[k].mTime
            /\ Appended[i][component] = pKeys[k].mValue

\* C24: in the per-channel merge every source key of every array is consumed
\* exactly once, and only in an iteration whose visited time equals the key's
\* own time: a cursor passes one key at a time and never a key whose time
\* differs from the time visited, so that when the loop has finished every key
\* has been applied, at its own time.
C24_EveryKeyConsumedAtItsTime ==
    /\ [][(pc = "merge" /\ pc' # "aborted") =>
             /\ ConsumesAtOwnTime(pAiAnim.channel.mPositionKeys, pos, pos',
                                  keyframe'.translation)
             /\ ConsumesAtOwnTime(pAiAnim.channel.mRotationKeys, rot, rot',
                                  keyframe'.rotation)
             /\ ConsumesAtOwnTime(pAiAnim.channel.mScalingKeys, scale, scale',
                                  keyframe'.scaling)
             /\ Appended' = Append(Appended, keyframe')]_vars
    /\ [](pc = "animDone" =>
             /\ CursorsExhausted
             /\ EveryKeyApplied(pAiAnim.channel.mPositionKeys, "translation")
             /\ EveryKeyApplied(pAiAnim.channel.mRotationKeys, "rotation")
             /\ EveryKeyApplied(pAiAnim.channel.mScalingKeys, "scaling"))

\* C24's case: a finished merge of a channel with three distinct key times and
\* more than one position key.
C24_Witness ==
    /\ pc = "animDone"
    /\ Cardinality(ChannelTimes) = 3
    /\ Len(pAiAnim.channel.mPositionKeys) = 2

\* ----------------------------------------------------------------------
\* The attachment of the meshes with bones
\* ----------------------------------------------------------------------

\* The meshes that list at least one bone.
MeshesWithBones == {m \in 0..(mNumMeshes - 1) : Len(aiMesh(m).mBones) > 0}

\* Some mesh with a bone is referenced by no node of the tree.
BoneMeshUnattached == \E m \in MeshesWithBones : Len(countMeshInstances[m]) = 0

\* C25: whenever validateBones returns without error, every mesh that has at
\* least one bone is attached to exactly one node of the external tree; a mesh
\* with a bone that is attached to no node makes validateBones fail fatally, and
\* the check that rejects it is the one that rejects a mesh attached to several
\* nodes: at its place in the loop either raises 'references a mesh with
\* multiple instances'.
C25_ValidatedBoneMeshesAttachedOnce ==
    LET boneMap == createBoneMap
        meshInstances == countMeshInstances
        unattached == \E m \in MeshesWithBones : Len(meshInstances[m]) = 0
    IN  /\ pc = "createSceneGraph" =>
              \A m \in MeshesWithBones : Len(meshInstances[m]) = 1
        /\ pc = "aborted" =>
              \A nm \in DOMAIN boneMap : \A i \in DOMAIN boneMap[nm] :
                  Len(meshInstances[boneMap[nm][i]]) # 1 =>
                      validateBoneMesh(boneMap[nm], meshInstances, i) = MultipleInstances
        /\ (pc # "validateScene" /\ unattached) => ValidationFailed

\* C25's case: a mesh with a bone is attached to no node, no mesh with a bone is
\* attached to several, and validateBones has raised its error.
C25_Witness ==
    /\ pc = "aborted"
    /\ error = MultipleInstances
    /\ BoneMeshUnattached
    /\ ~BoneMeshHasManyInstances

====
